---- MODULE Spec2Model ----
(***************************************************************************)
(* A model of the rufus crawl engine (rufus/crawler/crawler.py) with the   *)
(* browser resource of rufus/crawler/browser.py and the link filter.       *)
(*                                                                         *)
(* A URL is the sequence of the tokens of its string, so that the string   *)
(* operations of the code (urlparse, str.endswith, the "in" test) are      *)
(* computed on it: "https://example.com/a.pdf" is                          *)
(* <<"https:", "//", "example.com", "/", "a", ".pdf">>.                    *)
(***************************************************************************)
EXTENDS Integers, Sequences, FiniteSets, TLC

(***************************************************************************)
(* Bounds of the model.                                                    *)
(***************************************************************************)
MaxPagesBound == 4      \* max_pages ranges over 0..MaxPagesBound
MaxDepthBound == 2      \* depth ranges over 0..MaxDepthBound
MaxBatchSize == 2       \* batch_size ranges over 1..MaxBatchSize
MaxConcurrent == 2      \* max_concurrent_requests ranges over 1..MaxConcurrent
MaxLinks == 2           \* a page holds at most MaxLinks links
MaxFilterLen == 3       \* _filter_links is applied to lists of at most this length
MaxAnchors == 2         \* a document of sample hrefs holds at most MaxAnchors anchors
MaxDivs == 2            \* a document holds at most MaxDivs div elements
MaxParagraphs == 4      \* a div holds at most MaxParagraphs paragraphs of its own
MaxCalls == 2           \* crawl is called at most MaxCalls times on one engine

(***************************************************************************)
(* The URLs of the modelled web.                                           *)
(***************************************************************************)
SeedUrl == <<"https:", "//", "example.com">>
PageA == <<"https:", "//", "example.com", "/", "a">>
PageB == <<"https:", "//", "example.com", "/", "b">>
PageX == <<"https:", "//", "example.com", "/", "x">>
PdfUrl == <<"https:", "//", "example.com", "/", "a", ".pdf">>
OtherHostUrl == <<"https:", "//", "other.com", "/", "b">>
LoginUrl == <<"https:", "//", "example.com", "/", "login">>
NoSchemeUrl == <<"//", "example.com", "/", "a">>
NoHostUrl == <<"https:", "/", "a">>
PageAFragment == PageA \o <<"#", "f">>
SeedFragment == SeedUrl \o <<"#", "f">>

Pages == {SeedUrl, PageA, PageB, PageX}
AllUrls == Pages \cup {PdfUrl, OtherHostUrl, LoginUrl}
StartUrls == {SeedUrl, NoSchemeUrl, NoHostUrl}
OtherSeedUrl == <<"https:", "//", "other.com">>
Fetchable ==
    AllUrls \cup StartUrls \cup {OtherSeedUrl} \cup {PageAFragment, SeedFragment}

SchemeTokens == {"https:", "http:"}

(***************************************************************************)
(* urlparse, as far as the code reads its result: the scheme and the       *)
(* network location.  A scheme is a leading "<name>:" token; the netloc is *)
(* the token that follows a "//" standing right after the scheme (or at    *)
(* the start when there is no scheme).                                     *)
(***************************************************************************)
urlparse(link) ==
    LET hasScheme == Len(link) >= 1 /\ link[1] \in SchemeTokens
        rest == IF hasScheme THEN Tail(link) ELSE link
        hasNetloc == Len(rest) >= 2 /\ rest[1] = "//"
    IN  [scheme |-> IF hasScheme THEN link[1] ELSE "",
         netloc |-> IF hasNetloc THEN rest[2] ELSE ""]

(* A validation that would look at the scheme alone; C7 is tested against it. *)
ValidSeedSchemeOnly(url) == urlparse(url).scheme # ""

(* crawl: "if not parsed_url.scheme or not parsed_url.netloc: raise" *)
ValidSeed(url) == urlparse(url).scheme # "" /\ urlparse(url).netloc # ""

(***************************************************************************)
(* Configuration (utils/config.py DEFAULT_CONFIG).                         *)
(***************************************************************************)
skip_extensions == {".pdf", ".jpg", ".png", ".gif", ".zip", ".exe"}
ignore_patterns == {"login", "signup", "cart", "checkout", "account"}

Configs ==
    [async_crawling : BOOLEAN,
     use_browser : BOOLEAN,
     batch_size : 1..MaxBatchSize,
     max_concurrent_requests : 1..MaxConcurrent,
     stay_in_domain : {TRUE}]

FilterConfigs ==
    [async_crawling : {TRUE},
     use_browser : {FALSE},
     batch_size : {1},
     max_concurrent_requests : {1},
     stay_in_domain : BOOLEAN]

(***************************************************************************)
(* str.endswith(ext) and "pattern in link" on the tokens of the string.    *)
(***************************************************************************)
EndsWithAny(link, exts) == Len(link) >= 1 /\ link[Len(link)] \in exts

ContainsAny(link, patterns) == \E i \in 1..Len(link) : link[i] \in patterns

(* The three tests of _filter_links, each TRUE when the link passes it. *)
SameDomainOk(link, cfg, dom) ==
    ~(cfg.stay_in_domain /\ urlparse(link).netloc # dom)

ExtensionOk(link) == ~EndsWithAny(link, skip_extensions)

PatternOk(link) == ~ContainsAny(link, ignore_patterns)

(* A loop body without the domain test; C10 is tested against it. *)
KeepLinkNoDomain(link, cfg, dom) == ExtensionOk(link) /\ PatternOk(link)

(* One pass of the loop body of _filter_links: keep the link or continue. *)
KeepLink(link, cfg, dom) ==
    IF ~SameDomainOk(link, cfg, dom) THEN FALSE
    ELSE IF ~ExtensionOk(link) THEN FALSE
    ELSE IF ~PatternOk(link) THEN FALSE
    ELSE TRUE

RECURSIVE FilterLoop(_, _, _, _)
FilterLoop(links, cfg, dom, filtered_links) ==
    IF links = <<>> THEN filtered_links
    ELSE FilterLoop(Tail(links), cfg, dom,
                    IF KeepLink(Head(links), cfg, dom)
                    THEN Append(filtered_links, Head(links))
                    ELSE filtered_links)

_filter_links(links, cfg, dom) == FilterLoop(links, cfg, dom, <<>>)

(***************************************************************************)
(* Link discovery (HTMLParser.extract_links).  An href is the sequence of  *)
(* the tokens of its string, like a URL: "/a?q#f" is                       *)
(* <<"/", "a", "?", "q", "#", "f">>.  urlsplit and urljoin are those of    *)
(* urllib.parse on these tokens; the hrefs of the model hold no dot        *)
(* segments, no parameters and no empty path segments.                     *)
(***************************************************************************)
HrefSchemes == {"https:", "http:", "javascript:", "JavaScript:", "mailto:"}

(* str.lower of a scheme: urlsplit returns the scheme in lower case *)
Lower(tok) == IF tok = "JavaScript:" THEN "javascript:" ELSE tok

(* urllib.parse.uses_relative and uses_netloc, as far as HrefSchemes goes *)
uses_relative == {"https:", "http:", ""}
uses_netloc == {"https:", "http:", ""}

(* The first position of seq that holds a token of toks, Len(seq) + 1 when
   there is none. *)
Find(seq, toks) ==
    LET hits == {i \in 1..Len(seq) : seq[i] \in toks}
    IN  IF hits = {} THEN Len(seq) + 1
        ELSE CHOOSE i \in hits : \A j \in hits : i <= j

urlsplit(url) ==
    LET hasScheme == Len(url) >= 1 /\ url[1] \in HrefSchemes
        afterScheme == IF hasScheme THEN Tail(url) ELSE url
        hasNetloc == Len(afterScheme) >= 1 /\ afterScheme[1] = "//"
        afterSlashes == IF hasNetloc THEN Tail(afterScheme) ELSE afterScheme
        netlocEnd == IF hasNetloc THEN Find(afterSlashes, {"/", "?", "#"}) ELSE 1
        afterNetloc == SubSeq(afterSlashes, netlocEnd, Len(afterSlashes))
        hash == Find(afterNetloc, {"#"})
        beforeHash == SubSeq(afterNetloc, 1, hash - 1)
        mark == Find(beforeHash, {"?"})
    IN  [scheme |-> IF hasScheme THEN Lower(url[1]) ELSE "",
         netloc |-> SubSeq(afterSlashes, 1, netlocEnd - 1),
         path |-> SubSeq(beforeHash, 1, mark - 1),
         query |-> SubSeq(beforeHash, mark + 1, Len(beforeHash)),
         fragment |-> SubSeq(afterNetloc, hash + 1, Len(afterNetloc))]

urlunsplit(scheme, netloc, path, query, fragment) ==
    LET withNetloc == netloc # <<>> \/ (scheme # "" /\ scheme \in uses_netloc)
        p == IF withNetloc /\ path # <<>> /\ path[1] # "/"
             THEN <<"/">> \o path ELSE path
    IN  (IF scheme # "" THEN <<scheme>> ELSE <<>>)
            \o (IF withNetloc THEN <<"//">> \o netloc ELSE <<>>)
            \o p
            \o (IF query # <<>> THEN <<"?">> \o query ELSE <<>>)
            \o (IF fragment # <<>> THEN <<"#">> \o fragment ELSE <<>>)

(* urljoin: the path of the reference merged with the directory of the
   base path. *)
LastSlash(path) ==
    LET hits == {i \in 1..Len(path) : path[i] = "/"}
    IN  IF hits = {} THEN 0 ELSE CHOOSE i \in hits : \A j \in hits : j <= i

MergePath(bpath, path) ==
    IF path[1] = "/" THEN path
    ELSE IF LastSlash(bpath) = 0 THEN <<"/">> \o path
    ELSE SubSeq(bpath, 1, LastSlash(bpath)) \o path

urljoin(base, url) ==
    IF url = <<>> THEN base
    ELSE LET b == urlsplit(base)
             u == urlsplit(url)
             scheme == IF u.scheme = "" THEN b.scheme ELSE u.scheme
         IN  IF scheme # b.scheme \/ scheme \notin uses_relative THEN url
             ELSE IF u.netloc # <<>>
             THEN urlunsplit(scheme, u.netloc, u.path, u.query, u.fragment)
             ELSE IF u.path = <<>>
             THEN urlunsplit(scheme, b.netloc, b.path,
                             IF u.query = <<>> THEN b.query ELSE u.query,
                             u.fragment)
             ELSE urlunsplit(scheme, b.netloc, MergePath(b.path, u.path),
                             u.query, u.fragment)

(* The hrefs of the model: an optional scheme, an optional host, a path, an
   optional query and an optional fragment; and the base URLs. *)
Hrefs ==
    {s \o n \o p \o q \o f :
        s \in {<<>>} \cup {<<t>> : t \in HrefSchemes},
        n \in {<<>>, <<"//", "example.com">>, <<"//", "other.com">>},
        p \in {<<>>, <<"/", "a">>, <<"b">>, <<"/", "d", "/", "b">>},
        q \in {<<>>, <<"?", "q">>},
        f \in {<<>>, <<"#", "f">>}}

DirUrl == <<"https:", "//", "example.com", "/", "d", "/", "a">>

BaseUrls == {SeedUrl, PageA, DirUrl}

(* "if href.startswith('#') or href.startswith('javascript:') or
       href.startswith('mailto:'): continue" *)
Rejected == <<"rejected">>

SkippedHref(href) == href # <<>> /\ href[1] \in {"#", "javascript:", "mailto:"}

(* The body of the loop of extract_links on one href: the normalized URL,
   "{scheme}://{netloc}{path}" and "?{query}" when there is a query. *)
normalize(href, base_url) ==
    IF SkippedHref(href) THEN Rejected
    ELSE LET parsed == urlsplit(urljoin(base_url, href))
         IN  <<parsed.scheme, "//">> \o parsed.netloc \o parsed.path
                 \o (IF parsed.query # <<>> THEN <<"?">> \o parsed.query ELSE <<>>)

(* "links", the list the loop builds, and the set that "set(links)" makes
   of it *)
Appended(n) == IF n = Rejected THEN <<>> ELSE <<n>>

RECURSIVE NormalizedLinks(_, _)
NormalizedLinks(hrefs, base_url) ==
    IF hrefs = <<>> THEN <<>>
    ELSE Appended(normalize(Head(hrefs), base_url))
             \o NormalizedLinks(Tail(hrefs), base_url)

SeqRange(seq) == {seq[i] : i \in 1..Len(seq)}

(* "list(set(links))": the URLs once each, in an order the set decides *)
Listings(set) ==
    {l \in [1..Cardinality(set) -> set] : SeqRange(l) = set}

extract_links(hrefs, base_url) == Listings(SeqRange(NormalizedLinks(hrefs, base_url)))

(***************************************************************************)
(* Content extraction (HTMLParser.extract_title, _find_main_content,       *)
(* extract_content, _extract_tables).  A document is told by what the      *)
(* parser looks for in it:                                                 *)
(*   title     the title element: whether there is one, and its text;      *)
(*   h1        the texts of the level-1 headings, in document order;       *)
(*   semantic  there is a main, article or section element;                *)
(*   marked    "id" or "class" when an element carries a recognized        *)
(*             content id or class, "none" otherwise;                      *)
(*   divs      the div elements in document order: ps, the paragraphs of   *)
(*             the div that stand in no div nested in it, and parent, the  *)
(*             position of the div it is nested in, 0 for none;            *)
(*   table     the table of the document: none, one whose headers are the  *)
(*             th cells of its first row, or one whose headers are the th  *)
(*             cells of a thead; and the div it stands in, 0 for none.     *)
(* A semantic or marked element, when there is one, holds the whole        *)
(* content of the body.  A text is the sequence of its tokens, " " being   *)
(* white space.                                                            *)
(***************************************************************************)
RECURSIVE LStrip(_)
LStrip(text) ==
    IF text # <<>> /\ Head(text) = " " THEN LStrip(Tail(text)) ELSE text

RECURSIVE RStrip(_)
RStrip(text) ==
    IF text # <<>> /\ text[Len(text)] = " "
    THEN RStrip(SubSeq(text, 1, Len(text) - 1)) ELSE text

(* get_text(strip=True) of an element that holds one string *)
get_text(text) == RStrip(LStrip(text))

Untitled == <<"Untitled Page">>

(* A resolution that would look at the heading first; C13 is tested against it. *)
extract_title_heading_first(doc) ==
    IF doc.h1 # <<>> THEN get_text(Head(doc.h1))
    ELSE IF doc.title.found THEN get_text(doc.title.text)
    ELSE Untitled

(* "title_tag = soup.find('title')", then "h1_tag = soup.find('h1')" *)
extract_title(doc) ==
    IF doc.title.found THEN get_text(doc.title.text)
    ELSE IF doc.h1 # <<>> THEN get_text(Head(doc.h1))
    ELSE Untitled

(* len(div.find_all('p')): the paragraphs of div i and of the divs in it *)
RECURSIVE ParagraphsIn(_, _)
ParagraphsIn(divs, i) ==
    LET nested == {j \in (i + 1)..Len(divs) : divs[j].parent = i}
        RECURSIVE Sum(_)
        Sum(js) == IF js = {} THEN 0
                   ELSE LET j == CHOOSE k \in js : TRUE
                        IN  ParagraphsIn(divs, j) + Sum(js \ {j})
    IN  divs[i].ps + Sum(nested)

(* max(divs, key=...): the first div, in document order, of the greatest count *)
MaxDiv(divs) ==
    CHOOSE i \in 1..Len(divs) :
        /\ \A j \in 1..Len(divs) : ParagraphsIn(divs, j) <= ParagraphsIn(divs, i)
        /\ \A j \in 1..(i - 1) : ParagraphsIn(divs, j) < ParagraphsIn(divs, i)

(* A threshold one lower; C14 is tested against it. *)
EnoughParagraphsFromTwo(count) == count >= 2

(* "len(div_with_most_paragraphs.find_all('p')) > 2" *)
EnoughParagraphs(count) == count > 2

NoRegion == [kind |-> "none", div |-> 0]

_find_main_content(doc) ==
    IF doc.semantic THEN [kind |-> "semantic", div |-> 0]
    ELSE IF doc.marked = "id" THEN [kind |-> "id", div |-> 0]
    ELSE IF doc.marked = "class" THEN [kind |-> "class", div |-> 0]
    ELSE IF doc.divs # <<>>
            /\ EnoughParagraphs(ParagraphsIn(doc.divs, MaxDiv(doc.divs)))
    THEN [kind |-> "div", div |-> MaxDiv(doc.divs)]
    ELSE NoRegion

(* div j is div i or stands in it *)
RECURSIVE Within(_, _, _)
Within(divs, j, i) ==
    IF j = 0 THEN FALSE
    ELSE IF j = i THEN TRUE
    ELSE Within(divs, divs[j].parent, i)

(* content.find_all('table') finds the table of the document *)
TableInRegion(doc, region) ==
    /\ doc.table.kind # "none"
    /\ region.kind = "div" => Within(doc.divs, doc.table.within, region.div)

(* _extract_tables: with headers taken from a thead, "first_row" is never
   assigned and "if tr == first_row" raises UnboundLocalError at the first
   row of the table. *)
ExtractTablesRaises(doc, region) ==
    TableInRegion(doc, region) /\ doc.table.kind = "thead"

(* extract_content: "main_content = self._find_main_content(soup)", the body
   when that is None, then the structured content of the region. *)
extract_content(doc) ==
    LET found == _find_main_content(doc)
        main_content == IF found = NoRegion THEN [kind |-> "body", div |-> 0]
                        ELSE found
    IN  [op |-> "extract_content",
         raised |-> ExtractTablesRaises(doc, main_content),
         region |-> main_content,
         title |-> extract_title(doc)]

NoTitle == [found |-> FALSE, text |-> <<>>]
NoTable == [kind |-> "none", within |-> 0]

PlainDocument ==
    [title |-> [found |-> TRUE, text |-> <<"Test Page">>],
     h1 |-> <<(<<"Welcome">>)>>, semantic |-> TRUE, marked |-> "none",
     divs |-> <<>>, table |-> NoTable]

EmptyDocument ==
    [title |-> NoTitle, h1 |-> <<>>, semantic |-> FALSE, marked |-> "none",
     divs |-> <<>>, table |-> NoTable]

(* BeautifulSoup(html, 'html.parser') of the documents of the web *)
BeautifulSoup(html) ==
    IF html = "" THEN EmptyDocument
    ELSE IF html = "thead_table"
    THEN [PlainDocument EXCEPT !.table = [kind |-> "thead", within |-> 0]]
    ELSE PlainDocument

(***************************************************************************)
(* The state: the engine (Crawler), its browser (HeadlessBrowser), one     *)
(* crawl call and the web it fetches from.                                 *)
(***************************************************************************)
VARIABLES
    config,         \* Crawler.config
    use_browser,    \* Crawler.use_browser, read from the config by __init__
    browser,        \* the resources HeadlessBrowser holds open
    setup_begun,    \* browser.setup() has been called by this crawl call
    pc,             \* where the crawl call is
    error,          \* the exception the call raised, "none" when none
    start_url, max_pages, depth,    \* the arguments of crawl
    visited_urls,   \* Crawler.visited_urls
    domain,         \* Crawler.domain
    to_visit,       \* the frontier: a list of (url, current_depth)
    results,        \* the list of page records
    tasks,          \* the _fetch_and_parse tasks of the batch being gathered
    web,            \* how each URL answers
    fetch_count,    \* how many fetches of each URL have been issued
    last_status,    \* the status of the last response of each URL
    last_html,      \* the document of the last response of each URL
    last_slept,     \* the last fetch of each URL was followed by the crawl delay
    calls,          \* how many times crawl has been called on the engine
    f_links, f_out, f_done, \* an application of _filter_links on its own
    l_base, l_hrefs, l_links, l_again, l_pc,    \* extract_links on its own
    x_doc, x_out, x_pc,     \* extract_content on its own
    s_pc, s_args, s_to_visit, s_results, s_tasks    \* overlapping crawl calls

vars == <<config, use_browser, browser, setup_begun, pc, error, start_url,
          max_pages, depth, visited_urls, domain, to_visit, results, tasks,
          web, fetch_count, last_status, last_html, last_slept, calls,
          f_links, f_out, f_done, l_base, l_hrefs, l_links, l_again, l_pc,
          x_doc, x_out, x_pc, s_pc, s_args, s_to_visit, s_results, s_tasks>>

crawlVars == <<use_browser, browser, setup_begun, pc, error, start_url,
               max_pages, depth, visited_urls, to_visit, results, tasks,
               web, fetch_count, last_status, last_html, last_slept, calls>>

filterVars == <<f_links, f_out, f_done>>

linkVars == <<l_base, l_hrefs, l_links, l_again, l_pc>>

extractVars == <<x_doc, x_out, x_pc>>

sessionVars == <<s_pc, s_args, s_to_visit, s_results, s_tasks>>

(* What the actions of one crawl call leave alone. *)
otherVars == <<filterVars, linkVars, extractVars, sessionVars>>

FilterIdle == f_links = <<>> /\ f_out = <<>> /\ f_done = FALSE

LinksIdle ==
    l_base = <<>> /\ l_hrefs = <<>> /\ l_links = <<>> /\ l_again = <<>> /\ l_pc = "idle"

ExtractIdle == x_doc = "none" /\ x_out = "none" /\ x_pc = "idle"

SessionsIdle ==
    /\ s_pc = <<>>
    /\ s_args = <<>>
    /\ s_to_visit = <<>>
    /\ s_results = <<>>
    /\ s_tasks = <<>>

Min(a, b) == IF a < b THEN a ELSE b

(***************************************************************************)
(* The web.  A response is a status and the links of the page, in the      *)
(* order link discovery returns them; "no response" is a fetch that ends   *)
(* without a response (network error, timeout).  A URL is either volatile: *)
(* it may answer differently every time it is fetched; or it answers the   *)
(* same way every time, with the response it gave when first fetched.      *)
(***************************************************************************)
StatusOk == "200"
StatusNotFound == "404"
StatusNoResponse == "no response"
StatusNonAuthoritative == "203"
StatusMultipleChoices == "300"
StatusServerError == "500"

(* The number a status line carries *)
status_code ==
    (StatusOk :> 200) @@ (StatusNonAuthoritative :> 203)
        @@ (StatusMultipleChoices :> 300) @@ (StatusNotFound :> 404)
        @@ (StatusServerError :> 500)

(* requests.Response.raise_for_status raises HTTPError for the statuses
   400..599 and for no other. *)
raise_for_status(status) ==
    400 <= status_code[status] /\ status_code[status] < 600

Volatile == [status |-> "volatile", links |-> <<>>]
NotServed == [status |-> "not served", links |-> <<>>]

(* The links a page may hold, in the order they stand in a page.  A page
   holds each at most once and in this order: /a, /b and /x are alike, so
   every other order is one of these up to the names of the pages. *)
LinkTargets == <<SeedUrl, PageA, PageB, PageX, PdfUrl>>

LinkLists ==
    {[i \in 1..Len(idx) |-> LinkTargets[idx[i]]] :
        idx \in {l \in UNION {[1..n -> 1..Len(LinkTargets)] : n \in 0..MaxLinks} :
                    \A i, j \in 1..Len(l) : i < j => l[i] < l[j]}}

(* The documents a page may answer with: a plain page, or a page whose
   content holds a table with a header section.  The extraction of the
   latter raises before its links are read, so its links are left out. *)
HtmlKinds == {"page", "thead_table"}

Responses ==
    {r \in [status : {StatusOk}, links : LinkLists, html : HtmlKinds] :
        r.html = "thead_table" => r.links = <<>>}
        \cup {[status |-> StatusNotFound, links |-> <<>>, html |-> "error page"],
              [status |-> StatusNoResponse, links |-> <<>>, html |-> ""]}

(* A page of a fixed site that no fetch has parsed yet: a page that is
   there, and the URLs extract_links appends for it, in document order. *)
Unlisted(links) == [status |-> "unlisted", links |-> links]

(* The page answers, and "list(set(links))" lists its URLs once each, in
   some order. *)
ListedPages(links) ==
    {[status |-> StatusOk, links |-> l, html |-> "page"] :
        l \in Listings(SeqRange(links))}

ResponsesFor(url) ==
    IF web[url] \in {Volatile, NotServed} THEN Responses
    ELSE IF web[url].status = "unlisted" THEN ListedPages(web[url].links)
    ELSE {web[url]}

(* The web after url has answered r. *)
Served(url, r) == IF web[url] = Volatile THEN web ELSE [web EXCEPT ![url] = r]

(***************************************************************************)
(* HeadlessBrowser.  _setup_playwright starts playwright, launches the     *)
(* browser and opens a context; any of the three awaits may raise.         *)
(***************************************************************************)
NoBrowser == [playwright |-> FALSE, browser |-> FALSE, context |-> FALSE]

SetupOutcomes == {"ok", "import_failed", "start_failed", "launch_failed", "context_failed"}

_setup_playwright(outcome) ==
    [playwright |-> outcome \in {"ok", "launch_failed", "context_failed"},
     browser |-> outcome \in {"ok", "context_failed"},
     context |-> outcome = "ok"]

(* close: context.close(), browser.close(), playwright.stop() *)
BrowserClose(b) == NoBrowser

(* The "finally" of crawl: "if self.use_browser: await self.browser.close()" *)
CrawlFinally(b) == IF use_browser THEN BrowserClose(b) ELSE b

(***************************************************************************)
(* Construction: Crawler.__init__ under some configuration.                *)
(***************************************************************************)
EveryUrl(answer) == [u \in Fetchable |-> answer]

EngineInit(cfgs, doms, webs) ==
    /\ config \in cfgs
    /\ use_browser = config.use_browser
    /\ browser = NoBrowser
    /\ setup_begun = FALSE
    /\ pc = "idle"
    /\ error = "none"
    /\ start_url = <<>>
    /\ max_pages = 0
    /\ depth = 0
    /\ visited_urls = {}
    /\ domain \in doms
    /\ to_visit = <<>>
    /\ results = <<>>
    /\ tasks = <<>>
    /\ web \in webs
    /\ fetch_count = [u \in Fetchable |-> 0]
    /\ last_status = [u \in Fetchable |-> "none"]
    /\ last_html = [u \in Fetchable |-> "none"]
    /\ last_slept = [u \in Fetchable |-> FALSE]
    /\ calls = 0

Init ==
    /\ EngineInit(Configs, {""}, {EveryUrl(Volatile)})
    /\ FilterIdle /\ LinksIdle /\ ExtractIdle /\ SessionsIdle

(***************************************************************************)
(* crawl, up to the choice of the traversal.                               *)
(***************************************************************************)
LoopPc == IF config.async_crawling THEN "async_loop" ELSE "sync_loop"

(* "to_visit = [(start_url, 0)]; results = []" of either traversal *)
EnterTraversal(url) ==
    /\ to_visit' = <<[url |-> url, depth |-> 0]>>
    /\ results' = <<>>
    /\ pc' = LoopPc

(* An assignment that would keep the old set; C16 is tested against it. *)
KeptVisitedSet(old) == old

(* "self.visited_urls = set()" *)
NewVisitedSet(old) == {}

CrawlCall(url, mp, d) ==
    /\ calls' = calls + 1
    /\ setup_begun' = FALSE
    /\ fetch_count' = [u \in Fetchable |-> 0]
    /\ last_status' = [u \in Fetchable |-> "none"]
    /\ last_html' = [u \in Fetchable |-> "none"]
    /\ last_slept' = [u \in Fetchable |-> FALSE]
    /\ start_url' = url
    /\ max_pages' = mp
    /\ depth' = d
    /\ IF ~ValidSeed(url)
       THEN /\ pc' = "raised"
            /\ error' = "RufusError"
            /\ UNCHANGED <<visited_urls, domain, to_visit, results>>
       ELSE /\ visited_urls' = NewVisitedSet(visited_urls)
            /\ domain' = urlparse(url).netloc
            /\ error' = "none"
            /\ IF use_browser
               THEN /\ pc' = "setup"
                    /\ UNCHANGED <<to_visit, results>>
               ELSE EnterTraversal(url)
    /\ UNCHANGED <<config, use_browser, browser, tasks, web, otherVars>>

(* crawl called on an engine that is idle: fresh, or reset. *)
Crawl(url, mp, d) == pc = "idle" /\ calls < MaxCalls /\ CrawlCall(url, mp, d)

(* "if self.use_browser: await self.browser.setup()", outside any try *)
BrowserSetup(outcome) ==
    /\ pc = "setup"
    /\ setup_begun' = TRUE
    /\ browser' = _setup_playwright(outcome)
    /\ IF outcome = "ok"
       THEN /\ EnterTraversal(start_url)
            /\ error' = "none"
       ELSE /\ pc' = "raised"
            /\ error' = "BrowserSetupError"
            /\ UNCHANGED <<to_visit, results>>
    /\ UNCHANGED <<config, use_browser, start_url, max_pages, depth,
                   visited_urls, domain, tasks, web, fetch_count, last_status,
                   last_html, last_slept, calls, otherVars>>

(***************************************************************************)
(* What both traversals share.                                             *)
(***************************************************************************)
(* A depth test that is off by one; C3 is tested against it. *)
MayFollowUpTo(current_depth, maxd) == current_depth <= maxd

(* "if current_depth < depth": the links of a page are followed *)
MayFollow(current_depth, maxd) == current_depth < maxd

(* A loop test that would look at the frontier alone; C26 is tested against
   it. *)
LoopWhileFrontier(queue, res, mp) == queue # <<>>

(* "while to_visit and len(results) < max_pages" *)
LoopCondition(queue, res, mp) == queue # <<>> /\ Len(res) < mp

(* A frontier that would take new links at its front; C18 is tested against it. *)
EnqueueFront(queue, links, visited, current_depth) ==
    LET fresh == SelectSeq(links, LAMBDA l : l \notin visited)
    IN  [i \in 1..Len(fresh) |-> [url |-> fresh[i], depth |-> current_depth + 1]]
            \o queue

(* A frontier that would take the first link of a page only; C30 is tested
   against it. *)
EnqueueFirstLink(queue, links, visited, current_depth) ==
    IF links # <<>> /\ Head(links) \notin visited
    THEN Append(queue, [url |-> Head(links), depth |-> current_depth + 1])
    ELSE queue

(* "for link in links: if link not in self.visited_urls:
        to_visit.append((link, current_depth + 1))" *)
RECURSIVE Enqueue(_, _, _, _)
Enqueue(queue, links, visited, current_depth) ==
    IF links = <<>> THEN queue
    ELSE Enqueue(IF Head(links) \notin visited
                 THEN Append(queue, [url |-> Head(links), depth |-> current_depth + 1])
                 ELSE queue,
                 Tail(links), visited, current_depth)

PageRecord(url, current_depth, rendered) ==
    [url |-> url, depth |-> current_depth, rendered |-> rendered]

(* A fetch whose failures would go unnoticed; C6 is tested against it. *)
SyncFetchNeverFails(r) == FALSE

(* "response = requests.get(...)" raises when no response comes, and
   "response.raise_for_status()" when the status is an error status. *)
SyncFetchFails(r) ==
    r.status = StatusNoResponse \/ raise_for_status(r.status)

(* "time.sleep(self.config.get('crawl_delay', 1))" stands behind
   raise_for_status in the try block: it runs when neither raised. *)
SyncSleeps(r) == ~SyncFetchFails(r)

(* "soup = BeautifulSoup(html, 'html.parser');
    content = self.parser.extract_content(soup)": what extract_content
   raises goes to the "except Exception" around the fetch. *)
ExtractionRaises ==
    [html \in {r.html : r \in Responses} |->
        extract_content(BeautifulSoup(html)).raised]

ParseRaises(html) == ExtractionRaises[html]

(***************************************************************************)
(* _sync_crawl: one iteration of its loop on the session state             *)
(* s = [to_visit, visited, results], given the response r that             *)
(* requests.get returns for the URL at the head of the frontier.  A status *)
(* that raise_for_status rejects, no response, or an exception of the      *)
(* extraction raises into the iteration's own "except Exception" and the   *)
(* loop goes on.                                                           *)
(***************************************************************************)
SyncIteration(s, r, cfg, dom, maxd) ==
    LET e == Head(s.to_visit)
        rest == Tail(s.to_visit)
        seen == s.visited \cup {e.url}
    IN  IF e.url \in s.visited
        THEN [s EXCEPT !.to_visit = rest]
        ELSE IF SyncFetchFails(r) \/ ParseRaises(r.html)
        THEN [to_visit |-> rest, visited |-> seen, results |-> s.results]
        ELSE [to_visit |->
                  IF MayFollow(e.depth, maxd)
                  THEN Enqueue(rest, _filter_links(r.links, cfg, dom), seen, e.depth)
                  ELSE rest,
              visited |-> seen,
              results |-> Append(s.results, PageRecord(e.url, e.depth, FALSE))]

Session == [to_visit |-> to_visit, visited |-> visited_urls, results |-> results]

SyncStep ==
    /\ pc = "sync_loop"
    /\ LoopCondition(to_visit, results, max_pages)
    /\ LET url == Head(to_visit).url
       IN  IF url \in visited_urls
           THEN /\ to_visit' = Tail(to_visit)
                /\ UNCHANGED <<visited_urls, results, web, fetch_count,
                               last_status, last_html, last_slept>>
           ELSE \E r \in ResponsesFor(url) :
                   LET s == SyncIteration(Session, r, config, domain, depth)
                   IN  /\ web' = Served(url, r)
                       /\ fetch_count' = [fetch_count EXCEPT ![url] = @ + 1]
                       /\ last_status' = [last_status EXCEPT ![url] = r.status]
                       /\ last_html' = [last_html EXCEPT ![url] = r.html]
                       /\ last_slept' = [last_slept EXCEPT ![url] = SyncSleeps(r)]
                       /\ to_visit' = s.to_visit
                       /\ visited_urls' = s.visited
                       /\ results' = s.results
    /\ UNCHANGED <<config, use_browser, browser, setup_begun, pc, error,
                   start_url, max_pages, depth, domain, tasks, calls,
                   otherVars>>

(***************************************************************************)
(* crawl awaits what the traversal returns: _async_crawl is a coroutine    *)
(* function, _sync_crawl a plain function whose call returns the list      *)
(* itself, and "await" of a list raises TypeError.  The "finally" of crawl *)
(* closes the browser either way.                                          *)
(***************************************************************************)
Await(returned) == IF returned = "coroutine" THEN "returned" ELSE "raised"

SyncCrawlCall == "list"
AsyncCrawlCall == "coroutine"

SyncReturn ==
    /\ pc = "sync_loop"
    /\ ~LoopCondition(to_visit, results, max_pages)
    /\ pc' = Await(SyncCrawlCall)
    /\ error' = IF Await(SyncCrawlCall) = "raised" THEN "TypeError" ELSE "none"
    /\ browser' = CrawlFinally(browser)
    /\ UNCHANGED <<config, use_browser, setup_begun, start_url, max_pages,
                   depth, visited_urls, domain, to_visit, results, tasks, web,
                   fetch_count, last_status, last_html, last_slept, calls, otherVars>>

(***************************************************************************)
(* _fetch_and_parse: what a task returns for response r.  In the rendered  *)
(* strategy get_page_content never raises: a failed navigation comes back  *)
(* as empty HTML with no links and is parsed like any page.  In the static *)
(* strategy a status other than 200 returns None and an exception (no      *)
(* response) is caught and returns None.  An exception of the extraction   *)
(* is caught by the same handler and returns None, in either strategy.     *)
(***************************************************************************)
get_page_content(r) ==
    IF r.status = StatusNoResponse THEN [html |-> "", links |-> <<>>]
    ELSE [html |-> r.html, links |-> r.links]

FetchAndParse(r, rendered, cfg, dom) ==
    LET page == IF rendered THEN get_page_content(r)
                ELSE [html |-> r.html, links |-> r.links]
    IN  IF ~rendered /\ r.status # StatusOk
        THEN [ok |-> FALSE, links |-> <<>>, slept |-> FALSE]
        ELSE IF ParseRaises(page.html)
        THEN [ok |-> FALSE, links |-> <<>>, slept |-> TRUE]
        ELSE [ok |-> TRUE, links |-> _filter_links(page.links, cfg, dom),
              slept |-> TRUE]

(***************************************************************************)
(* _async_crawl.  One iteration of its loop is: cut the batch off the      *)
(* frontier, create a task for every entry whose URL is not yet visited,   *)
(* mark the URLs of the batch visited (DispatchBatch); the tasks run under *)
(* the semaphore (TaskAcquire, TaskComplete); gather returns their results *)
(* in task order and the loop body processes them (Gather).  The results   *)
(* of a batch stay bound until the next batch replaces them.               *)
(***************************************************************************)
Batch(queue, bs) == SubSeq(queue, 1, Min(bs, Len(queue)))

AfterBatch(queue, bs) == SubSeq(queue, bs + 1, Len(queue))

(* "[... for url, current_depth in batch if url not in self.visited_urls]" *)
NewTasks(batch, visited) ==
    LET fresh == SelectSeq(batch, LAMBDA e : e.url \notin visited)
    IN  [i \in 1..Len(fresh) |->
            [url |-> fresh[i].url, depth |-> fresh[i].depth,
             st |-> "pending", ok |-> FALSE, links |-> <<>>]]

(* A dispatch that would mark nothing visited; C17 is tested against it. *)
NoBatchUrls(batch) == {}

(* "self.visited_urls.update([url for url, _ in batch])" *)
BatchUrls(batch) == {batch[i].url : i \in 1..Len(batch)}

DispatchBatch ==
    /\ pc = "async_loop"
    /\ LoopCondition(to_visit, results, max_pages)
    /\ LET batch == Batch(to_visit, config.batch_size)
       IN  /\ to_visit' = AfterBatch(to_visit, config.batch_size)
           /\ tasks' = NewTasks(batch, visited_urls)
           /\ visited_urls' = visited_urls \cup BatchUrls(batch)
    /\ pc' = "async_batch"
    /\ UNCHANGED <<config, use_browser, browser, setup_begun, error, start_url,
                   max_pages, depth, domain, results, web, fetch_count,
                   last_status, last_html, last_slept, calls, otherVars>>

InFlight == Cardinality({i \in 1..Len(tasks) : tasks[i].st = "inflight"})

(* A limiter that never blocks; C8 is tested against it. *)
SemaphoreAlwaysFree(inflight, capacity) == TRUE

(* "async with semaphore": a task passes while a slot is free *)
SemaphoreFree(inflight, capacity) == inflight < capacity

(* The tasks reach the semaphore in task order and wait in that order. *)
TaskAcquire(i) ==
    /\ pc = "async_batch"
    /\ i \in 1..Len(tasks)
    /\ tasks[i].st = "pending"
    /\ \A j \in 1..(i - 1) : tasks[j].st # "pending"
    /\ SemaphoreFree(InFlight, config.max_concurrent_requests)
    /\ tasks' = [tasks EXCEPT ![i].st = "inflight"]
    /\ fetch_count' = [fetch_count EXCEPT ![tasks[i].url] = @ + 1]
    /\ UNCHANGED <<config, use_browser, browser, setup_begun, pc, error,
                   start_url, max_pages, depth, visited_urls, domain, to_visit,
                   results, web, last_status, last_html, last_slept, calls, otherVars>>

TaskComplete(i) ==
    /\ pc = "async_batch"
    /\ i \in 1..Len(tasks)
    /\ tasks[i].st = "inflight"
    /\ \E r \in ResponsesFor(tasks[i].url) :
          LET out == FetchAndParse(r, use_browser, config, domain)
          IN  /\ web' = Served(tasks[i].url, r)
              /\ last_status' = [last_status EXCEPT ![tasks[i].url] = r.status]
              /\ last_html' = [last_html EXCEPT ![tasks[i].url] = r.html]
              /\ last_slept' = [last_slept EXCEPT ![tasks[i].url] = out.slept]
              /\ tasks' = [tasks EXCEPT ![i].st = "done",
                                        ![i].ok = out.ok,
                                        ![i].links = out.links]
    /\ UNCHANGED <<config, use_browser, browser, setup_begun, pc, error,
                   start_url, max_pages, depth, visited_urls, domain, to_visit,
                   results, fetch_count, calls, otherVars>>

(* "for result in batch_results": None is skipped, a page is appended and
   its links are enqueued when its depth allows *)
RECURSIVE ProcessResults(_, _, _, _, _, _)
ProcessResults(ts, res, queue, visited, maxd, rendered) ==
    IF ts = <<>> THEN [results |-> res, to_visit |-> queue]
    ELSE LET t == Head(ts)
         IN  IF ~t.ok
             THEN ProcessResults(Tail(ts), res, queue, visited, maxd, rendered)
             ELSE ProcessResults(Tail(ts),
                                 Append(res, PageRecord(t.url, t.depth, rendered)),
                                 IF MayFollow(t.depth, maxd)
                                 THEN Enqueue(queue, t.links, visited, t.depth)
                                 ELSE queue,
                                 visited, maxd, rendered)

Gather ==
    /\ pc = "async_batch"
    /\ \A i \in 1..Len(tasks) : tasks[i].st = "done"
    /\ LET out == ProcessResults(tasks, results, to_visit, visited_urls, depth,
                                 use_browser)
       IN  /\ results' = out.results
           /\ to_visit' = out.to_visit
    /\ pc' = "async_loop"
    /\ UNCHANGED <<config, use_browser, browser, setup_begun, error, start_url,
                   max_pages, depth, visited_urls, domain, tasks, web,
                   fetch_count, last_status, last_html, last_slept, calls, otherVars>>

AsyncReturn ==
    /\ pc = "async_loop"
    /\ ~LoopCondition(to_visit, results, max_pages)
    /\ pc' = Await(AsyncCrawlCall)
    /\ error' = IF Await(AsyncCrawlCall) = "raised" THEN "TypeError" ELSE "none"
    /\ browser' = CrawlFinally(browser)
    /\ tasks' = <<>>
    /\ UNCHANGED <<config, use_browser, setup_begun, start_url, max_pages,
                   depth, visited_urls, domain, to_visit, results, web,
                   fetch_count, last_status, last_html, last_slept, calls, otherVars>>

(***************************************************************************)
(* The crawl engine: one engine, one crawl call.  Under Spec every URL is   *)
(* volatile; under SpecDeterministic every URL answers the same way every  *)
(* time.                                                                   *)
(***************************************************************************)
Next ==
    \/ \E url \in StartUrls, mp \in 0..MaxPagesBound, d \in 0..MaxDepthBound :
          Crawl(url, mp, d)
    \/ \E outcome \in SetupOutcomes : BrowserSetup(outcome)
    \/ SyncStep
    \/ SyncReturn
    \/ DispatchBatch
    \/ \E i \in 1..MaxBatchSize : TaskAcquire(i)
    \/ \E i \in 1..MaxBatchSize : TaskComplete(i)
    \/ Gather
    \/ AsyncReturn

Spec == Init /\ [][Next]_vars

(* Every fetch returns or fails in finite time and the event loop runs what
   is ready: a step that can be taken is taken. *)
SpecFair == Spec /\ WF_vars(Next)

InitDeterministic ==
    /\ EngineInit(Configs, {""}, {EveryUrl(NotServed)})
    /\ FilterIdle /\ LinksIdle /\ ExtractIdle /\ SessionsIdle

SpecDeterministic == InitDeterministic /\ [][Next]_vars

(***************************************************************************)
(* One crawl call on a web of two pages that answer with any status: the   *)
(* seed links to /a.                                                       *)
(***************************************************************************)
Answer(status, links) ==
    [status |-> status, links |-> links,
     html |-> IF status = StatusNoResponse THEN ""
              ELSE IF status_code[status] < 400 THEN "page" ELSE "error page"]

StatusWebs ==
    {[u \in Fetchable |->
        IF u = SeedUrl THEN Answer(s1, <<PageA>>)
        ELSE IF u = PageA THEN Answer(s2, <<>>)
        ELSE Answer(StatusNotFound, <<>>)] :
            s1, s2 \in DOMAIN status_code \cup {StatusNoResponse}}

StatusInit ==
    /\ EngineInit(Configs, {""}, StatusWebs)
    /\ FilterIdle /\ LinksIdle /\ ExtractIdle /\ SessionsIdle

SpecStatus == StatusInit /\ [][Next]_vars

(***************************************************************************)
(* One engine, several crawl calls one after another, and reset.  crawl is *)
(* called again on the engine as the last call left it; reset empties      *)
(* visited_urls of an engine on which no call is running.                  *)
(***************************************************************************)
ReuseConfigs ==
    {c \in Configs : /\ c.batch_size = MaxBatchSize
                     /\ c.max_concurrent_requests = MaxConcurrent}

ReuseInit ==
    /\ EngineInit(ReuseConfigs, {""}, {EveryUrl(Volatile)})
    /\ FilterIdle /\ LinksIdle /\ ExtractIdle /\ SessionsIdle

CrawlAgain(url, mp, d) ==
    /\ pc \in {"returned", "raised"}
    /\ calls < MaxCalls
    /\ CrawlCall(url, mp, d)

reset ==
    /\ pc \in {"idle", "returned", "raised"}
    /\ visited_urls' = NewVisitedSet(visited_urls)
    /\ pc' = "idle"
    /\ UNCHANGED <<config, use_browser, browser, setup_begun, error, start_url,
                   max_pages, depth, domain, to_visit, results, tasks, web,
                   fetch_count, last_status, last_html, last_slept, calls, otherVars>>

ReuseNext ==
    \/ Next
    \/ \E url \in StartUrls, mp \in 0..MaxPagesBound, d \in 0..MaxDepthBound :
          CrawlAgain(url, mp, d)
    \/ reset

SpecReuse == ReuseInit /\ [][ReuseNext]_vars

(***************************************************************************)
(* RufusClient.set_config before a crawl: "self.config.update(config);     *)
(* self.crawler.config = self.config".  The engine reads the new values    *)
(* through self.config; self.use_browser and self.browser stay as          *)
(* __init__ set them.                                                      *)
(***************************************************************************)
set_config(key, value) ==
    /\ pc = "idle"
    /\ config[key] # value
    /\ config' = [config EXCEPT ![key] = value]
    /\ UNCHANGED <<domain, crawlVars, otherVars>>

ConfigNext ==
    \/ Next
    \/ \E key \in {"use_browser", "async_crawling"}, value \in BOOLEAN :
          set_config(key, value)

SpecConfig == Init /\ [][ConfigNext]_vars

(***************************************************************************)
(* One engine, two calls of crawl that overlap on one event loop, in the   *)
(* concurrent mode with the static strategy.  Each call has its own        *)
(* frontier, results and tasks (locals of _async_crawl); visited_urls and  *)
(* domain are attributes of the engine.  A step is what a coroutine does   *)
(* between two suspensions: a call runs from its start to its first        *)
(* "await gather"; a task runs to its return, reading the domain when it   *)
(* filters its links; a call whose gather is complete processes the        *)
(* results and runs to the next "await gather" or to its return.  The web  *)
(* answers every URL the same way every time.                              *)
(***************************************************************************)
Sessions == {"first", "second"}

SessionSeeds == {SeedUrl, OtherSeedUrl}

SessionConfigs ==
    {c \in Configs : /\ c.async_crawling /\ ~c.use_browser
                     /\ c.max_concurrent_requests = MaxConcurrent}

Page(links) == [status |-> StatusOk, links |-> links, html |-> "page"]

(* The seed of example.com links as the site map says; /a and /b link to
   /x; the seed of other.com links to its /b. *)
SiteMaps ==
    {[u \in Fetchable |->
        IF u = SeedUrl THEN Page(l)
        ELSE IF u \in {PageA, PageB} THEN Page(<<PageX>>)
        ELSE IF u = OtherSeedUrl THEN Page(<<OtherHostUrl>>)
        ELSE Page(<<>>)] : l \in LinkLists}

SessionsInit ==
    /\ EngineInit(SessionConfigs, {""}, SiteMaps)
    /\ FilterIdle /\ LinksIdle /\ ExtractIdle
    /\ s_pc = [s \in Sessions |-> "idle"]
    /\ \E mp \in 1..MaxPagesBound, d \in 0..MaxDepthBound :
          s_args \in [Sessions -> [start_url : SessionSeeds, max_pages : {mp},
                                   depth : {d}]]
    /\ s_to_visit = [s \in Sessions |-> <<>>]
    /\ s_results = [s \in Sessions |-> <<>>]
    /\ s_tasks = [s \in Sessions |-> <<>>]

(* The loop of _async_crawl from its test to the next suspension: the call
   returns when the test fails, else dispatches a batch and awaits it. *)
LoopToAwait(queue, res, visited, mp, bs) ==
    IF ~LoopCondition(queue, res, mp)
    THEN [pc |-> "returned", to_visit |-> queue, tasks |-> <<>>,
          visited |-> visited]
    ELSE [pc |-> "batch", to_visit |-> AfterBatch(queue, bs),
          tasks |-> NewTasks(Batch(queue, bs), visited),
          visited |-> visited \cup BatchUrls(Batch(queue, bs))]

SessionVarsAfter(s, out, res) ==
    /\ s_pc' = [s_pc EXCEPT ![s] = out.pc]
    /\ s_to_visit' = [s_to_visit EXCEPT ![s] = out.to_visit]
    /\ s_tasks' = [s_tasks EXCEPT ![s] = out.tasks]
    /\ s_results' = [s_results EXCEPT ![s] = res]
    /\ visited_urls' = out.visited

SessionStart(s) ==
    /\ s_pc[s] = "idle"
    /\ ValidSeed(s_args[s].start_url)
    /\ domain' = urlparse(s_args[s].start_url).netloc
    /\ SessionVarsAfter(s,
          LoopToAwait(<<[url |-> s_args[s].start_url, depth |-> 0]>>, <<>>,
                      NewVisitedSet(visited_urls), s_args[s].max_pages,
                      config.batch_size),
          <<>>)
    /\ UNCHANGED <<config, use_browser, browser, setup_begun, pc, error,
                   start_url, max_pages, depth, to_visit, results, tasks, web,
                   fetch_count, last_status, last_html, last_slept, calls, filterVars,
                   linkVars, extractVars, s_args>>

SessionTask(s, i) ==
    /\ s_pc[s] = "batch"
    /\ i \in 1..Len(s_tasks[s])
    /\ s_tasks[s][i].st = "pending"
    /\ LET out == FetchAndParse(web[s_tasks[s][i].url], use_browser, config, domain)
       IN  s_tasks' = [s_tasks EXCEPT ![s][i].st = "done",
                                      ![s][i].ok = out.ok,
                                      ![s][i].links = out.links]
    /\ UNCHANGED <<config, domain, crawlVars, filterVars, linkVars, extractVars,
                   s_pc, s_args, s_to_visit, s_results>>

SessionGather(s) ==
    /\ s_pc[s] = "batch"
    /\ \A i \in 1..Len(s_tasks[s]) : s_tasks[s][i].st = "done"
    /\ LET out == ProcessResults(s_tasks[s], s_results[s], s_to_visit[s],
                                 visited_urls, s_args[s].depth, use_browser)
       IN  SessionVarsAfter(s,
              LoopToAwait(out.to_visit, out.results, visited_urls,
                          s_args[s].max_pages, config.batch_size),
              out.results)
    /\ UNCHANGED <<config, domain, use_browser, browser, setup_begun, pc, error,
                   start_url, max_pages, depth, to_visit, results, tasks, web,
                   fetch_count, last_status, last_html, last_slept, calls, filterVars,
                   linkVars, extractVars, s_args>>

SessionsNext ==
    \E s \in Sessions :
        \/ SessionStart(s)
        \/ \E i \in 1..MaxBatchSize : SessionTask(s, i)
        \/ SessionGather(s)

SpecSessions == SessionsInit /\ [][SessionsNext]_vars

(***************************************************************************)
(* One crawl call over a site whose documents are fixed.  A document is    *)
(* the list of the href attributes of its anchors, in document order; a    *)
(* request carries the URL without its fragment, so a URL and the same URL *)
(* with a fragment are answered with the same document.  What a fetch      *)
(* returns as the links of a page is what link discovery makes of the      *)
(* hrefs: in the static strategy HTMLParser.extract_links, whose           *)
(* "list(set(links))" lists the URLs in an order the set decides; in the   *)
(* rendered strategy the loop of _get_with_playwright, which joins every   *)
(* href with the URL of the page and keeps the document order.  A page     *)
(* that was fetched answers the same way when it is fetched again.         *)
(***************************************************************************)
Requested(url) ==
    LET u == urlsplit(url)
    IN  urlunsplit(u.scheme, u.netloc, u.path, u.query, <<>>)

(* The seed links to /a, /b, /x and /a#f; /a to /x and /login; /x back to
   the seed; /b is not found. *)
SiteHrefs(url) ==
    IF Requested(url) = SeedUrl
    THEN <<(<<"/", "a">>), (<<"/", "b">>), (<<"/", "x">>), (<<"/", "a", "#", "f">>)>>
    ELSE IF Requested(url) = PageA THEN <<(<<"/", "x">>), (<<"/", "login">>)>>
    ELSE IF Requested(url) = PageX THEN <<SeedUrl>>
    ELSE <<>>

SiteStatus(url) == IF Requested(url) = PageB THEN StatusNotFound ELSE StatusOk

NotFoundPage == [status |-> StatusNotFound, links |-> <<>>, html |-> "error page"]

(* "href = await link.get_attribute('href'); if href:
        links.append(urljoin(url, href))" *)
RenderedLinks(hrefs, url) ==
    LET given == SelectSeq(hrefs, LAMBDA h : h # <<>>)
    IN  [i \in 1..Len(given) |-> urljoin(url, given[i])]

RenderedSite ==
    [u \in Fetchable |->
        IF SiteStatus(u) = StatusOk THEN Page(RenderedLinks(SiteHrefs(u), u))
        ELSE NotFoundPage]

StaticSite ==
    [u \in Fetchable |->
        IF SiteStatus(u) = StatusOk
        THEN Unlisted(NormalizedLinks(SiteHrefs(u), u))
        ELSE NotFoundPage]

SiteSeeds == {SeedUrl, SeedFragment}

SiteInit ==
    /\ EngineInit(Configs, {""}, {StaticSite, RenderedSite})
    /\ web = RenderedSite <=> (config.async_crawling /\ config.use_browser)
    /\ FilterIdle /\ LinksIdle /\ ExtractIdle /\ SessionsIdle

SiteNext ==
    \/ \E url \in SiteSeeds, mp \in 0..MaxPagesBound, d \in 0..MaxDepthBound :
          Crawl(url, mp, d)
    \/ \E outcome \in SetupOutcomes : BrowserSetup(outcome)
    \/ SyncStep
    \/ SyncReturn
    \/ DispatchBatch
    \/ \E i \in 1..MaxBatchSize : TaskAcquire(i)
    \/ \E i \in 1..MaxBatchSize : TaskComplete(i)
    \/ Gather
    \/ AsyncReturn

SpecSite == SiteInit /\ [][SiteNext]_vars

(***************************************************************************)
(* _filter_links on its own: the engine's domain set as the test sets it,  *)
(* the filter applied to a list of links.                                  *)
(***************************************************************************)
(* A link as extract_links returns it for href="/a.pdf?download=1": the
   query stands behind the path. *)
PdfQueryUrl == PdfUrl \o <<"?", "download=1">>

FilterInputs ==
    UNION {[1..n -> AllUrls \cup {PdfQueryUrl}] : n \in 0..MaxFilterLen}

FilterInit ==
    /\ EngineInit(FilterConfigs, {"example.com", "other.com"}, {EveryUrl(Volatile)})
    /\ f_links \in FilterInputs
    /\ f_out = <<>>
    /\ f_done = FALSE
    /\ LinksIdle /\ ExtractIdle /\ SessionsIdle

ApplyFilter ==
    /\ ~f_done
    /\ f_out' = _filter_links(f_links, config, domain)
    /\ f_done' = TRUE
    /\ UNCHANGED <<config, domain, f_links, crawlVars, linkVars, extractVars,
                   sessionVars>>

FilterNext == ApplyFilter

SpecFilter == FilterInit /\ [][FilterNext]_vars

(***************************************************************************)
(* extract_links on its own: a document is the list of the hrefs of its    *)
(* anchors, in document order.  The parser is applied to the document, and *)
(* then to the links it returned, as it is when a crawl reaches a page     *)
(* that links to them in the form it was given.                            *)
(***************************************************************************)
(* The configuration is of no account to the parser. *)
ParserConfigs ==
    {c \in Configs : /\ c.async_crawling /\ ~c.use_browser
                     /\ c.batch_size = 1 /\ c.max_concurrent_requests = 1}

SampleHrefs ==
    {<<"/", "a">>, PageA, <<"/", "a", "#", "f">>, <<"/", "a", "#", "g">>,
     <<"/", "a", "?", "q">>, <<"#", "f">>, <<"javascript:", "b">>,
     <<"JavaScript:", "b">>, <<"mailto:", "b">>}

Documents ==
    {<<h>> : h \in Hrefs}
        \cup UNION {[1..n -> SampleHrefs] : n \in 0..MaxAnchors}

LinksInit ==
    /\ EngineInit(ParserConfigs, {""}, {EveryUrl(Volatile)})
    /\ FilterIdle /\ ExtractIdle /\ SessionsIdle
    /\ l_base \in BaseUrls
    /\ l_hrefs \in Documents
    /\ l_links = <<>>
    /\ l_again = <<>>
    /\ l_pc = "document"

ExtractLinks ==
    /\ l_pc = "document"
    /\ l_links' \in extract_links(l_hrefs, l_base)
    /\ l_pc' = "extracted"
    /\ UNCHANGED <<config, domain, crawlVars, filterVars, extractVars,
                   sessionVars, l_base, l_hrefs, l_again>>

NormalizeAgain ==
    /\ l_pc = "extracted"
    /\ l_again' = [i \in 1..Len(l_links) |-> normalize(l_links[i], l_base)]
    /\ l_pc' = "again"
    /\ UNCHANGED <<config, domain, crawlVars, filterVars, extractVars,
                   sessionVars, l_base, l_hrefs, l_links>>

LinksNext == ExtractLinks \/ NormalizeAgain

SpecLinks == LinksInit /\ [][LinksNext]_vars

(***************************************************************************)
(* extract_title and extract_content on their own, applied to a parsed     *)
(* document.                                                               *)
(***************************************************************************)
Titles ==
    {NoTitle, [found |-> TRUE, text |-> <<>>],
     [found |-> TRUE, text |-> <<" ", "Test Page", " ">>]}

HeadingLists ==
    {<<>>, <<(<<"Welcome">>)>>, <<(<<" ", "Welcome">>), (<<"Second">>)>>}

DivLists ==
    UNION {{l \in [1..n -> [ps : 0..MaxParagraphs, parent : 0..MaxDivs]] :
               \A i \in 1..n : l[i].parent < i} : n \in 0..MaxDivs}

Tables ==
    {NoTable} \cup [kind : {"first_row", "thead"}, within : 0..MaxDivs]

HtmlDocuments ==
    {d \in [title : Titles, h1 : HeadingLists, semantic : BOOLEAN,
            marked : {"none", "id", "class"}, divs : DivLists, table : Tables] :
        d.table.within <= Len(d.divs)}

ExtractInit ==
    /\ EngineInit(ParserConfigs, {""}, {EveryUrl(Volatile)})
    /\ FilterIdle /\ LinksIdle /\ SessionsIdle
    /\ x_doc \in HtmlDocuments
    /\ x_out = "none"
    /\ x_pc = "document"

ExtractTitle ==
    /\ x_pc = "document"
    /\ x_out' = [op |-> "extract_title", raised |-> FALSE, region |-> NoRegion,
                 title |-> extract_title(x_doc)]
    /\ x_pc' = "done"
    /\ UNCHANGED <<config, domain, crawlVars, filterVars, linkVars,
                   sessionVars, x_doc>>

ExtractContent ==
    /\ x_pc = "document"
    /\ x_out' = extract_content(x_doc)
    /\ x_pc' = "done"
    /\ UNCHANGED <<config, domain, crawlVars, filterVars, linkVars,
                   sessionVars, x_doc>>

ExtractNext == ExtractTitle \/ ExtractContent

SpecExtract == ExtractInit /\ [][ExtractNext]_vars

(***************************************************************************)
(* Properties.                                                             *)
(***************************************************************************)
Done == pc \in {"returned", "raised"}

TraversalEnded == Done /\ error \in {"none", "TypeError"}

(* The static strategy is the one in effect: _sync_crawl always fetches
   with requests.get; _async_crawl renders when use_browser is set. *)
StaticInEffect == ~(config.async_crawling /\ use_browser)

ResultUrls(res) == {res[i].url : i \in 1..Len(res)}

IsPrefix(a, b) == Len(a) <= Len(b) /\ SubSeq(b, 1, Len(a)) = a

Fetched(u) == fetch_count[u] > 0

(* C1: the list a crawl builds never holds more than max_pages records, in
   the concurrent mode with any batch size and in the sequential mode. *)
C1_ResultsWithinMaxPages == Len(results) <= max_pages

(* C2: within one crawl session no URL is fetched more than once. *)
C2_NoUrlFetchedTwice == \A u \in Fetchable : fetch_count[u] <= 1

(* C3: no record, frontier entry or task is deeper than maxDepth, so the
   links of a page at depth maxDepth are never enqueued; with maxDepth = 0
   only the start URL is fetched and emitted, at depth 0. *)
C3_DepthBounded ==
    /\ \A i \in 1..Len(results) : results[i].depth <= depth
    /\ \A i \in 1..Len(to_visit) : to_visit[i].depth <= depth
    /\ \A i \in 1..Len(tasks) : tasks[i].depth <= depth
    /\ depth = 0 =>
          /\ \A u \in Fetchable : Fetched(u) => u = start_url
          /\ \A i \in 1..Len(results) :
                results[i].url = start_url /\ results[i].depth = 0

(* The last batch is processed and the loop is over: a page of the batch
   was emitted at depth maxDepth and carried a link that passed the filter,
   to a URL that is neither visited nor in the frontier. *)
C3_Witness ==
    /\ pc = "async_loop"
    /\ ~LoopCondition(to_visit, results, max_pages)
    /\ \E i \in 1..Len(tasks) :
          /\ tasks[i].ok
          /\ tasks[i].depth = depth
          /\ tasks[i].url \in ResultUrls(results)
          /\ \E k \in 1..Len(tasks[i].links) :
                /\ tasks[i].links[k] \notin visited_urls
                /\ \A j \in 1..Len(to_visit) : to_visit[j].url # tasks[i].links[k]

(* The sequential traversal run to its end on the responses served so far;
   "defined" is FALSE when it needs a URL that was never served. *)
RECURSIVE SyncRunOn(_, _)
SyncRunOn(w, s) ==
    IF ~LoopCondition(s.to_visit, s.results, max_pages) THEN s
    ELSE LET url == Head(s.to_visit).url
         IN  IF url \notin s.visited /\ w[url] = NotServed
             THEN [s EXCEPT !.defined = FALSE]
             ELSE LET t == SyncIteration(s, w[url], config, domain, depth)
                  IN  SyncRunOn(w, [to_visit |-> t.to_visit, visited |-> t.visited,
                                    results |-> t.results, defined |-> TRUE])

SyncRun(s) == SyncRunOn(web, s)

SyncRunFromSeed ==
    SyncRun([to_visit |-> <<[url |-> start_url, depth |-> 0]>>, visited |-> {},
             results |-> <<>>, defined |-> TRUE])

(* C4: on the same responses and arguments the concurrent traversal (static
   strategy) emits the set of URLs the sequential traversal emits. *)
C4_ModesEmitSameUrls ==
    (config.async_crawling /\ ~use_browser /\ pc = "returned"
        /\ SyncRunFromSeed.defined)
        => ResultUrls(results) = ResultUrls(SyncRunFromSeed.results)

(* C5: with a start URL that has a scheme and a host, and the browser set up
   when one is configured, crawl raises nothing in either mode. *)
C5_ValidSeedNeverRaises ==
    (ValidSeed(start_url) /\ error # "BrowserSetupError") => pc # "raised"

(* C6: a failed fetch of the static strategy (no response, bad status)
   leaves the page out of the results, keeps the records gathered so far and
   the rest of the frontier, and the traversal goes on. *)
FailedOnce(u) == fetch_count[u] = 1 /\ last_status[u] \notin {"none", StatusOk}

C6_FailedPageLeftOut ==
    StaticInEffect =>
        \A u \in Fetchable :
            FailedOnce(u) =>
                /\ u \notin ResultUrls(results)
                /\ \A i \in 1..Len(tasks) : tasks[i].url = u => ~tasks[i].ok

C6_SyncFailureStep ==
    /\ pc = "sync_loop"
    /\ \E u \in Fetchable :
          /\ fetch_count'[u] = fetch_count[u] + 1
          /\ last_status'[u] # StatusOk

C6_AsyncFailureStep ==
    /\ pc = "async_batch"
    /\ ~use_browser
    /\ \E i \in 1..Len(tasks) :
          /\ tasks[i].st = "inflight"
          /\ tasks'[i].st = "done"
          /\ last_status'[tasks[i].url] # StatusOk

InTraversal == pc \in {"sync_loop", "async_loop", "async_batch"}

C6_RecordsKept == InTraversal => IsPrefix(results, results')

C6_SyncFailureSkipped ==
    C6_SyncFailureStep =>
        /\ results' = results
        /\ to_visit' = Tail(to_visit)
        /\ pc' = "sync_loop"
        /\ error' = "none"

C6_AsyncFailureSkipped ==
    C6_AsyncFailureStep =>
        /\ results' = results
        /\ to_visit' = to_visit
        /\ pc' = "async_batch"
        /\ error' = "none"
        /\ \A i \in 1..Len(tasks) :
              tasks[i].st # "inflight" => tasks'[i] = tasks[i]

C6_FrontierKept == (pc = "async_batch") => IsPrefix(to_visit, to_visit')

C7_InvalidSeedRejected ==
    (pc # "idle" /\ start_url \in {NoSchemeUrl, NoHostUrl}) =>
        /\ pc = "raised"
        /\ error = "RufusError"
        /\ \A u \in Fetchable : fetch_count[u] = 0
        /\ ~setup_begun
        /\ browser = NoBrowser

C7_Witness ==
    /\ start_url = NoHostUrl
    /\ use_browser
    /\ pc = "raised"
    /\ error = "RufusError"

(* C8: the fetches in flight never exceed max_concurrent_requests, whatever
   the batch size. *)
C8_InFlightWithinCapacity == InFlight <= config.max_concurrent_requests

(* A batch larger than the capacity: the limiter is full and a task waits. *)
C8_Witness ==
    /\ Len(tasks) > config.max_concurrent_requests
    /\ InFlight = config.max_concurrent_requests
    /\ \E i \in 1..Len(tasks) : tasks[i].st = "pending"

(* C9: a crawl call that began setting the browser up has closed every
   browser resource when it returns or raises. *)
C9_BrowserClosedOnExit == (setup_begun /\ Done) => browser = NoBrowser

(* C10: _filter_links returns, in input order, exactly the links that pass
   all three tests, in whatever order the tests are applied; with the
   default rules and domain example.com, of a page link, a .pdf link and a
   link to another host only the page link is kept. *)
ByDomain(links) == SelectSeq(links, LAMBDA l : SameDomainOk(l, config, domain))
ByExtension(links) == SelectSeq(links, ExtensionOk)
ByPattern(links) == SelectSeq(links, PatternOk)

C10_FilterIsConjunction ==
    f_done =>
        /\ f_out = SelectSeq(f_links,
                       LAMBDA l : /\ SameDomainOk(l, config, domain)
                                  /\ ExtensionOk(l)
                                  /\ PatternOk(l))
        /\ f_out = ByPattern(ByExtension(ByDomain(f_links)))
        /\ f_out = ByPattern(ByDomain(ByExtension(f_links)))
        /\ f_out = ByExtension(ByPattern(ByDomain(f_links)))
        /\ f_out = ByExtension(ByDomain(ByPattern(f_links)))
        /\ f_out = ByDomain(ByPattern(ByExtension(f_links)))
        /\ f_out = ByDomain(ByExtension(ByPattern(f_links)))
        /\ (config.stay_in_domain /\ domain = "example.com"
              /\ f_links = <<PageA, PdfUrl, OtherHostUrl>>) => f_out = <<PageA>>

C10_Witness ==
    /\ f_done
    /\ config.stay_in_domain
    /\ domain = "example.com"
    /\ f_links = <<PageA, PdfUrl, OtherHostUrl>>
    /\ f_out = <<PageA>>

(* C11: a link that normalization accepted and normalized is accepted again
   and left as it is when it is normalized once more against the same base. *)
C11_NormalizeIdempotent ==
    (l_pc = "again") => \A i \in 1..Len(l_links) : l_again[i] = l_links[i]

(* C12: extract_links returns every URL once, none with a fragment, none of
   the javascript or mailto scheme, the query kept; "/a" and
   "https://example.com/a", and two hrefs apart in the fragment only, make
   one entry. *)
HasDuplicates(seq) == \E i, j \in 1..Len(seq) : i # j /\ seq[i] = seq[j]

C12_LinksCanonicalOnce ==
    (l_pc # "document") =>
        /\ ~HasDuplicates(l_links)
        /\ \A i \in 1..Len(l_links) :
              /\ "#" \notin SeqRange(l_links[i])
              /\ urlsplit(l_links[i]).scheme \notin {"javascript:", "mailto:"}
        /\ \A k \in 1..Len(l_hrefs) :
              (~SkippedHref(l_hrefs[k]) /\ urlsplit(l_hrefs[k]).query # <<>>) =>
                  \E i \in 1..Len(l_links) :
                      urlsplit(l_links[i]).query = urlsplit(l_hrefs[k]).query
        /\ (l_base = SeedUrl /\ l_hrefs = <<(<<"/", "a">>), PageA>>)
              => l_links = <<PageA>>
        /\ (l_base = SeedUrl
              /\ l_hrefs = <<(<<"/", "a", "#", "f">>), (<<"/", "a", "#", "g">>)>>)
              => l_links = <<PageA>>
        /\ (\A k \in 1..Len(l_hrefs) : SkippedHref(l_hrefs[k])) => l_links = <<>>

(* C13: the title is the text of the title element when the document has
   one, also when it has a level-1 heading too; else the text of the first
   level-1 heading; else the placeholder. *)
TitleProduced == x_pc = "done" /\ ~x_out.raised

C13_TitleResolution ==
    TitleProduced =>
        /\ x_doc.title = [found |-> TRUE, text |-> <<" ", "Test Page", " ">>]
              => x_out.title = <<"Test Page">>
        /\ x_doc.title = [found |-> TRUE, text |-> <<>>] => x_out.title = <<>>
        /\ (~x_doc.title.found /\ x_doc.h1 # <<>>) => x_out.title = <<"Welcome">>
        /\ (~x_doc.title.found /\ x_doc.h1 = <<>>) => x_out.title = <<"Untitled Page">>

(* extract_title on a document with a title element and two headings. *)
C13_Witness ==
    /\ x_pc = "done"
    /\ x_out.op = "extract_title"
    /\ x_doc.title.found
    /\ Len(x_doc.h1) = 2
    /\ x_out.title = <<"Test Page">>

(* C14: with no semantic container and no recognized id or class, the
   region is a div of the greatest paragraph count when that count is over
   2, and the body otherwise; a div with 4 paragraphs among divs with fewer
   is the region. *)
C14_FallbackRegion ==
    (x_pc = "done" /\ x_out.op = "extract_content"
        /\ ~x_doc.semantic /\ x_doc.marked = "none") =>
        LET n == Len(x_doc.divs)
            count(i) == ParagraphsIn(x_doc.divs, i)
        IN  /\ (\A i \in 1..n : count(i) <= 2) => x_out.region.kind = "body"
            /\ (\E i \in 1..n : count(i) > 2) =>
                  /\ x_out.region.kind = "div"
                  /\ \A i \in 1..n : count(i) <= count(x_out.region.div)
            /\ \A i \in 1..n :
                  (count(i) = 4 /\ \A j \in 1..n : j # i => count(j) < 4)
                      => x_out.region = [kind |-> "div", div |-> i]

(* The second of two divs holds 4 paragraphs, the first fewer but some. *)
C14_Witness ==
    /\ x_pc = "done"
    /\ x_out.op = "extract_content"
    /\ ~x_doc.semantic /\ x_doc.marked = "none"
    /\ Len(x_doc.divs) = 2
    /\ x_doc.divs[1].ps = 2
    /\ x_doc.divs[2] = [ps |-> 4, parent |-> 0]
    /\ x_out.region = [kind |-> "div", div |-> 2]

(* C17: when a batch is dispatched every URL of it is in visited_urls and
   no fetch of it has begun; while the batch is fetched its URLs stay
   there; and the links its pages bring in are appended behind the frontier
   and none of them is a URL of the batch. *)
C17_DispatchStep == pc = "async_loop" /\ pc' = "async_batch"

C17_GatherStep == pc = "async_batch" /\ pc' = "async_loop"

C17_ClaimedAtDispatch ==
    C17_DispatchStep =>
        /\ \A i \in 1..Len(to_visit) :
              i <= config.batch_size => to_visit[i].url \in visited_urls'
        /\ \A i \in 1..Len(tasks') : tasks'[i].st = "pending"
        /\ fetch_count' = fetch_count

C17_ClaimedWhileFetched ==
    (pc = "async_batch") => \A i \in 1..Len(tasks) : tasks[i].url \in visited_urls

C17_NotReenqueued ==
    C17_GatherStep =>
        /\ IsPrefix(to_visit, to_visit')
        /\ \A k \in (Len(to_visit) + 1)..Len(to_visit') :
              \A i \in 1..Len(tasks) : to_visit'[k].url # tasks[i].url

C17_BatchVisitedBeforeFetch ==
    /\ []C17_ClaimedWhileFetched
    /\ [][C17_ClaimedAtDispatch]_vars
    /\ [][C17_NotReenqueued]_vars

(* A batch of two was processed; one of its pages was emitted above
   maxDepth with a link, passed by the filter, to the other URL of the
   batch, and that URL is not in the frontier. *)
C17_Witness ==
    /\ pc = "async_loop"
    /\ \E i, j \in 1..Len(tasks) :
          /\ i # j
          /\ tasks[i].ok
          /\ tasks[i].depth < depth
          /\ tasks[j].url \in SeqRange(tasks[i].links)
          /\ \A k \in 1..Len(to_visit) : to_visit[k].url # tasks[j].url

(* C18: the frontier is ordered by depth and nothing in it is shallower
   than an entry already dispatched or a page already emitted; so each
   dequeue, in either mode, takes an entry no deeper than any that is left
   or that comes in later, and an entry of depth d+1 leaves the frontier
   only when no entry of depth d is left or can come in. *)
SortedByDepth(queue) ==
    \A i, j \in 1..Len(queue) : i < j => queue[i].depth <= queue[j].depth

C18_FrontierOrdered ==
    /\ SortedByDepth(to_visit)
    /\ \A k \in 1..Len(to_visit) :
          /\ \A i \in 1..Len(tasks) : tasks[i].depth <= to_visit[k].depth
          /\ \A i \in 1..Len(results) : results[i].depth <= to_visit[k].depth

C18_SyncDequeue ==
    (pc = "sync_loop" /\ pc' = "sync_loop" /\ to_visit # <<>>) =>
        \A k \in 1..Len(to_visit') : Head(to_visit).depth <= to_visit'[k].depth

C18_AsyncDequeue ==
    C17_DispatchStep =>
        /\ SortedByDepth(tasks')
        /\ \A i \in 1..Len(to_visit) : \A k \in 1..Len(to_visit') :
              i <= config.batch_size => to_visit[i].depth <= to_visit'[k].depth

C18_BreadthFirst ==
    /\ []C18_FrontierOrdered
    /\ [][C18_SyncDequeue]_vars
    /\ [][C18_AsyncDequeue]_vars

(* The frontier holds entries of two depths, a shallower one in front. *)
C18_Witness ==
    /\ InTraversal
    /\ Len(to_visit) >= 2
    /\ to_visit[1].depth < to_visit[Len(to_visit)].depth
    /\ Len(results) >= 2

(* C19: in the rendered strategy a page whose navigation failed is not
   among the emitted records once its batch is processed. *)
C19_RenderFailureSkipped ==
    (config.async_crawling /\ use_browser /\ pc # "async_batch") =>
        \A u \in Fetchable :
            (fetch_count[u] = 1 /\ last_status[u] = StatusNoResponse)
                => u \notin ResultUrls(results)

(* C20: a page that was fetched with status 200 and whose extraction raised
   (a table with its headers in a thead) is among the emitted records once
   its iteration or batch is processed. *)
C20_ExtractionFailureStillEmitted ==
    (pc # "async_batch") =>
        \A u \in Fetchable :
            (fetch_count[u] = 1 /\ last_status[u] = StatusOk
                /\ last_html[u] = "thead_table")
                => u \in ResultUrls(results)

(* C16: whenever a call of crawl enters its traversal, the first on the
   engine or a later one, after calls that returned or raised, the engine
   is in the state a fresh engine is in at that point: empty visited_urls,
   the domain of the new seed, the seed alone in the frontier, no results;
   and an engine that was reset holds an empty visited_urls. *)
FreshEntry ==
    [visited_urls |-> {},
     domain |-> urlparse(start_url).netloc,
     to_visit |-> <<[url |-> start_url, depth |-> 0]>>,
     results |-> <<>>,
     tasks |-> <<>>,
     browser |-> IF use_browser THEN _setup_playwright("ok") ELSE NoBrowser]

EngineState ==
    [visited_urls |-> visited_urls, domain |-> domain, to_visit |-> to_visit,
     results |-> results, tasks |-> tasks, browser |-> browser]

C16_EntryStep == ~InTraversal /\ InTraversal'

C16_EntersFresh == C16_EntryStep => EngineState' = FreshEntry'

C16_ResetEmpties == (pc = "idle") => visited_urls = {}

C16_NoStateSurvives == []C16_ResetEmpties /\ [][C16_EntersFresh]_vars

(* A second call on the engine has returned two records. *)
C16_Witness ==
    /\ calls = 2
    /\ pc = "returned"
    /\ Len(results) = 2
    /\ visited_urls # {}

(* The concurrent traversal of one call that has the engine to itself, run
   to its end on the site map. *)
RECURSIVE AsyncRunOn(_, _, _, _, _)
AsyncRunOn(w, st, mp, maxd, dom) ==
    LET at == LoopToAwait(st.to_visit, st.results, st.visited, mp, config.batch_size)
        fetched == [i \in 1..Len(at.tasks) |->
                       LET out == FetchAndParse(w[at.tasks[i].url], use_browser,
                                                config, dom)
                       IN  [at.tasks[i] EXCEPT !.st = "done", !.ok = out.ok,
                                               !.links = out.links]]
        out == ProcessResults(fetched, st.results, at.to_visit, at.visited,
                              maxd, use_browser)
    IN  IF at.pc = "returned" THEN st.results
        ELSE AsyncRunOn(w, [to_visit |-> out.to_visit, visited |-> at.visited,
                            results |-> out.results], mp, maxd, dom)

AsyncRun(st, mp, maxd, dom) == AsyncRunOn(web, st, mp, maxd, dom)

RunAlone(s) ==
    AsyncRun([to_visit |-> <<[url |-> s_args[s].start_url, depth |-> 0]>>,
              visited |-> {}, results |-> <<>>],
             s_args[s].max_pages, s_args[s].depth,
             urlparse(s_args[s].start_url).netloc)

(* C15: a call that has returned, whatever other call ran on the engine in
   the meantime, has emitted the URLs it emits when it runs alone. *)
C15_SessionsIndependent ==
    \A s \in Sessions :
        (s_pc[s] = "returned") => ResultUrls(s_results[s]) = ResultUrls(RunAlone(s))

(* C23: during a traversal every URL that stands in the frontier is in
   visited_urls, and no two entries of the frontier hold the same URL. *)
C23_FrontierInVisited ==
    InTraversal =>
        /\ \A k \in 1..Len(to_visit) : to_visit[k].url \in visited_urls
        /\ \A i, j \in 1..Len(to_visit) :
              i < j => to_visit[i].url # to_visit[j].url

(* C27: no link that _filter_links keeps has a path that ends with an
   extension of skip_extensions, whether or not a query follows the path. *)
C27_ExtensionDenylistOnPath ==
    f_done =>
        \A k \in 1..Len(f_out) :
            ~EndsWithAny(urlsplit(f_out[k]).path, skip_extensions)

(* C28: every fetch that has come to its end, with a page, a bad status or
   no response, in either strategy and mode, was followed by the crawl
   delay. *)
C28_DelayOnEveryFetch ==
    \A u \in Fetchable : last_status[u] # "none" => last_slept[u]

(* C21: in the static strategy a URL that was fetched once, its iteration
   or batch processed, is among the emitted records exactly when its
   response carried a status 200..299, in the sequential and in the
   concurrent mode. *)
Is2xx(status) ==
    /\ status \in DOMAIN status_code
    /\ 200 <= status_code[status] /\ status_code[status] < 300

C21_RecordExactlyOn2xx ==
    (StaticInEffect /\ pc # "async_batch") =>
        \A u \in Fetchable :
            (fetch_count[u] = 1 /\ last_status[u] # "none")
                => (u \in ResultUrls(results) <=> Is2xx(last_status[u]))

(* C24: every page of a crawl call is fetched with the strategy that the
   use_browser value of the configuration names when the call starts
   (set_config changes it only between calls), in both modes. *)
C24_StrategyFromConfig ==
    \A i \in 1..Len(results) : results[i].rendered = config.use_browser

(* C26: a traversal that was entered comes to its end; it leaves its loop
   only with an empty frontier or with max_pages records or more; and at
   the head of the loop, with an empty frontier or max_pages records, it
   fetches nothing more. *)
AtLoopHead == pc \in {"sync_loop", "async_loop"}

LimitReached == to_visit = <<>> \/ Len(results) >= max_pages

C26_EndsOnlyOnLimit == (InTraversal /\ ~InTraversal') => LimitReached

C26_StopsOnLimit == (AtLoopHead /\ LimitReached) => Done'

C26_TerminatesOnLimits ==
    /\ [](InTraversal => <>Done)
    /\ [][C26_EndsOnlyOnLimit]_vars
    /\ [][C26_StopsOnLimit]_vars

(* A traversal has ended on max_pages with URLs left in the frontier. *)
C26_Witness ==
    /\ TraversalEnded
    /\ to_visit # <<>>
    /\ Len(results) = max_pages
    /\ max_pages >= 2

(* C22: every URL in visited_urls or in the frontier is canonical: it
   carries no fragment, the seed included and in either strategy; and no
   two URLs that differ only in their fragment are both fetched in one
   session. *)
Canonical(url) == urlsplit(url).fragment = <<>>

C22_VisitedCanonical == \A u \in visited_urls : Canonical(u)

C22_FrontierCanonical == \A k \in 1..Len(to_visit) : Canonical(to_visit[k].url)

C22_OneFetchPerDocument ==
    \A u, v \in Fetchable :
        (Fetched(u) /\ Fetched(v) /\ Requested(u) = Requested(v)) => u = v

C22_CanonicalUrlsOnly ==
    /\ C22_VisitedCanonical
    /\ C22_FrontierCanonical
    /\ C22_OneFetchPerDocument

(* The URLs of a list, once each, in the order of their first occurrence:
   one of the orders in which "list(set(links))" may list them. *)
RECURSIVE FirstOccurrences(_)
FirstOccurrences(links) ==
    IF links = <<>> THEN <<>>
    ELSE <<Head(links)>>
            \o FirstOccurrences(SelectSeq(Tail(links), LAMBDA l : l # Head(links)))

(* The site as a crawl meets it whose sets list their URLs in the order of
   first occurrence. *)
InDocumentOrder(site) ==
    [u \in DOMAIN site |->
        IF site[u].status = "unlisted" THEN Page(FirstOccurrences(site[u].links))
        ELSE site[u]]

(* The crawl of the same arguments in the same mode under the same
   configuration over that site, and the URLs of the records it emits. *)
ReferenceCrawl ==
    LET site == IF StaticInEffect THEN InDocumentOrder(StaticSite) ELSE RenderedSite
        entry == <<[url |-> start_url, depth |-> 0]>>
    IN  IF config.async_crawling
        THEN AsyncRunOn(site, [to_visit |-> entry, visited |-> {}, results |-> <<>>],
                        max_pages, depth, domain)
        ELSE SyncRunOn(site, [to_visit |-> entry, visited |-> {}, results |-> <<>>,
                              defined |-> TRUE]).results

UrlSequence(res) == [i \in 1..Len(res) |-> res[i].url]

(* C25: a crawl that has ended has emitted the sequence of URLs that every
   crawl in the same mode with the same arguments and configuration over
   the same documents emits, whatever order the sets of links were listed
   in. *)
C25_SameSequenceOnSameResponses ==
    TraversalEnded => UrlSequence(results) = UrlSequence(ReferenceCrawl)

(* The links of an emitted page that pass the filter, and the URLs a chain
   of at most k such links reaches from the seed through emitted pages. *)
AcceptedLinks(url) == SeqRange(_filter_links(web[url].links, config, domain))

RECURSIVE WithinDistance(_)
WithinDistance(k) ==
    IF k = 0 THEN {start_url}
    ELSE WithinDistance(k - 1)
            \cup UNION {AcceptedLinks(p) :
                          p \in WithinDistance(k - 1) \cap ResultUrls(results)}

Distance(url) ==
    IF \E k \in 0..depth : url \in WithinDistance(k)
    THEN CHOOSE k \in 0..depth :
            /\ url \in WithinDistance(k)
            /\ \A j \in 0..depth : url \in WithinDistance(j) => k <= j
    ELSE depth + 1

(* C29: the depth of every record is the length of the shortest chain of
   accepted links from the seed to its URL through emitted pages; the seed
   has depth 0. *)
C29_DepthIsShortestDistance ==
    \A i \in 1..Len(results) : results[i].depth = Distance(results[i].url)

(* The call is over with fewer than max_pages records. *)
EndedBelowLimit == TraversalEnded /\ Len(results) < max_pages

(* C30: when a crawl has ended with fewer than max_pages records, every
   link that passed the filter on an emitted page of a depth below the
   maximum depth is in visited_urls, and nothing is left in the frontier. *)
C30_CompleteUpToLimits ==
    EndedBelowLimit =>
        /\ \A i \in 1..Len(results) :
              results[i].depth < depth =>
                  AcceptedLinks(results[i].url) \subseteq visited_urls
        /\ to_visit = <<>>

(* A crawl has ended below max_pages: a page was emitted above the maximum
   depth with two accepted links, one of them to a page that was emitted in
   its turn and the other to a page that failed. *)
C30_Witness ==
    /\ EndedBelowLimit
    /\ \E i \in 1..Len(results) :
          /\ results[i].depth < depth
          /\ Cardinality(AcceptedLinks(results[i].url)) >= 2
          /\ \E u, v \in AcceptedLinks(results[i].url) :
                /\ u \in ResultUrls(results)
                /\ v \notin ResultUrls(results)
                /\ Fetched(v)

====
